---- MODULE Spec2Model ----
(***************************************************************************)
(* Model of src/jtag/drivers/dmem.c: the dmem "dapdirect" adapter driver,  *)
(* which maps ADIv5 DP/AP register accesses onto the CoreSight control     *)
(* register reached through a device file.                                 *)
(*                                                                         *)
(* Program state: the file-scope statics of dmem.c (DP/AP register stubs,  *)
(* the channel function pointers, the file descriptor, the sticky DAP      *)
(* error code, the two function-local "error_flagged" statics).            *)
(* Environment state: the set of descriptors the process holds open.       *)
(* Observation state: the call that ran last and what it returned, plus    *)
(* history variables that the properties below refer to.                   *)
(***************************************************************************)
EXTENDS Integers, Sequences, FiniteSets

\* ------------------------------------------------------------------------
\* Bounds of the model
\* ------------------------------------------------------------------------
\* DRW accesses are explored while the accumulated increment is below this.
MaxTarInc == 6
\* Largest number of channel reads one polling loop is explored for.
MaxPolls == 2
\* Descriptors the process may hold open at once (open() fails beyond it).
MaxOpenFds == 2

\* ------------------------------------------------------------------------
\* Program constants
\* ------------------------------------------------------------------------
\* A uint32_t is the pair <<high half, low half>> of its 16-bit halves (the
\* model checker's integers are narrower than 32 bits); H is 2^16.
H == 65536
U32(hi, lo) == <<hi, lo>>
Zero32 == U32(0, 0)

ERROR_OK == 0
ERROR_FAIL == -4
EINVAL == 22
\* pread()/pwrite()/ioctl() report failure as -1
IO_ERR == -1

\* 0x80000000, 0x44000000, 0x04000000, 0x44770002
RSH_CS_ROM_BASE == U32(32768, 0)
RSH_CS_TILE_BASE == U32(17408, 0)
RSH_CS_TILE_SIZE == U32(1024, 0)
APB_AP_IDR == U32(17527, 2)

DP_DPIDR == 0
DP_CTRL_STAT == 4
DP_SELECT == 8
\* CDBGPWRUPACK | CSYSPWRUPACK = (1 << 29) | (1 << 31)
PWRUPACK == U32(40960, 0)

ADIV5_MEM_AP_REG_CSW == 0
ADIV5_MEM_AP_REG_TAR == 4
ADIV5_MEM_AP_REG_DRW == 12
ADIV5_MEM_AP_REG_BD0 == 16
ADIV5_MEM_AP_REG_BD1 == 20
ADIV5_MEM_AP_REG_BD2 == 24
ADIV5_MEM_AP_REG_BD3 == 28
ADIV5_MEM_AP_REG_CFG == 244
ADIV5_MEM_AP_REG_BASE == 248
ADIV5_AP_REG_IDR == 252

\* Marks an output parameter the callee did not store to.
NoData == U32(-1, -1)
\* Lowest descriptor open() can return (0, 1, 2 are the standard streams).
FirstFd == 3

BDRegs == {ADIV5_MEM_AP_REG_BD0, ADIV5_MEM_AP_REG_BD1,
           ADIV5_MEM_AP_REG_BD2, ADIV5_MEM_AP_REG_BD3}

\* ------------------------------------------------------------------------
\* 32-bit arithmetic used by the handlers
\* ------------------------------------------------------------------------
\* a + n in uint32_t, n a small natural number
Add32(a, n) ==
    LET l == a[2] + n
    IN  U32((a[1] + (l \div H)) % H, l % H)
\* a - b in uint32_t
Sub32(a, b) ==
    LET l == a[2] - b[2]
        borrow == IF l < 0 THEN 1 ELSE 0
    IN  U32((a[1] - b[1] - borrow) % H, l % H)
\* a < b
Lt32(a, b) == a[1] < b[1] \/ (a[1] = b[1] /\ a[2] < b[2])

\* (data & DP_SELECT_APSEL) >> 24, DP_SELECT_APSEL = 0xFF000000
SelectApsel(data) == data[1] \div 256
\* (data & DP_SELECT_APBANK) >> 4, DP_SELECT_APBANK = 0x000000F0
SelectApbank(data) == (data[2] \div 16) % 16
\* ap_csw & CSW_ADDRINC_MASK, CSW_ADDRINC_MASK = 3 << 4
CswAddrinc(csw) == ((csw[2] \div 16) % 4) * 16
\* (ap_csw & 0x03) * 2
CswStride(csw) == (csw[2] % 4) * 2
\* (ap_tar & ~0xf) + (reg & 0x0C), in uint32_t
BDAddr(tar, reg) ==
    Add32(U32(tar[1], tar[2] - (tar[2] % 16)), ((reg \div 4) % 4) * 4)
\* (ap_tar & ~0x3) + ap_tar_inc, in uint32_t
DRWAddr(tar, inc) == Add32(U32(tar[1], tar[2] - (tar[2] % 4)), inc)

\* Mutation of InRootTable: the root table ends where a tile-sized window
\* would.
InRootTable_size(a) == Lt32(a, RSH_CS_TILE_SIZE)

\* if (*addr < RSH_CS_TILE_BASE)
InRootTable(a) == Lt32(a, RSH_CS_TILE_BASE)

\* Mutation of TileIndex: clusters are numbered from 0.
TileIndex_from0(b) == b[1] \div RSH_CS_TILE_SIZE[1]

\* *tile = *addr / RSH_CS_TILE_SIZE + 1;
TileIndex(b) == (b[1] \div RSH_CS_TILE_SIZE[1]) + 1

\* Mutation of TileOffset: the offset is not reduced to the window.
TileOffset_whole(b) == b

\* *addr = *addr % RSH_CS_TILE_SIZE;
TileOffset(b) == U32(b[1] % RSH_CS_TILE_SIZE[1], b[2])

\* Convert AP address to tile local address (uint32_t arithmetic; the tile
\* size is a multiple of 2^16, so / and % by it act on the high half).
ap_addr_2_tile(addr) ==
    LET a == Sub32(addr, RSH_CS_ROM_BASE)
        b == Sub32(a, RSH_CS_TILE_BASE)
    IN  IF InRootTable(a)
        THEN [tile |-> 0, addr |-> a]
        ELSE [tile |-> TileIndex(b), addr |-> TileOffset(b)]

\* ------------------------------------------------------------------------
\* The CoreSight control word (RSH_CORESIGHT_CTL)
\* ------------------------------------------------------------------------
\* a | b on 16-bit halves, bit by bit
RECURSIVE Or16(_, _)
Or16(a, b) ==
    IF a = 0 /\ b = 0 THEN 0
    ELSE (IF a % 2 = 1 \/ b % 2 = 1 THEN 1 ELSE 0)
         + 2 * Or16(a \div 2, b \div 2)

\* a | b in uint32_t
Or32(a, b) == U32(Or16(a[1], b[1]), Or16(a[2], b[2]))

\* addr >> 2 in uint32_t
Shr2(a) == U32(a[1] \div 4, (a[1] % 4) * (H \div 4) + (a[2] \div 4))

\* tile << 24 in uint32_t
Shl24(tile) == U32((tile % 256) * 256, 0)

\* 1 << 28
Bit28 == U32(4096, 0)

\* Mutation of CtlAddr: ADDR[28] is never set.
CtlAddr_nobit28(tile, addr) == Or32(Shr2(addr), Shl24(tile))

\* addr = (addr >> 2) | (tile << 24); if (tile) addr |= (1 << 28);
CtlAddr(tile, addr) ==
    LET a == Or32(Shr2(addr), Shl24(tile))
    IN  IF tile # 0 THEN Or32(a, Bit28) ELSE a

\* RSH_CS_SET_FIELD(ctl, ADDR, addr) followed by RSH_CS_GET_FIELD(ctl, ADDR):
\* (addr << 2) & 0x7ffffffc keeps the low 29 bits of addr.
AddrField(addr) == U32(addr[1] % 8192, addr[2])

\* The 64-bit control word by its fields: go (bit 0), action (bit 1:
\* 0 write, 1 read), addr (bits 30:2), err (bit 31), data (bits 63:32).
Ctl(go, action, addr, err, data) ==
    [go |-> go, action |-> action, addr |-> addr, err |-> err,
     data |-> data]

\* uint64_t ctl = 0;
ZeroCtl == Ctl(0, 0, Zero32, 0, Zero32)

\* ------------------------------------------------------------------------
\* State
\* ------------------------------------------------------------------------
VARIABLES
    dp_ctrl_stat, dp_id_code, ap_sel, ap_bank, ap_csw, ap_drw, ap_tar,
    ap_tar_inc,
    dmem_read, dmem_write, dmem_fd, dmem_dap_retval,
    error_flagged_r, error_flagged_w,
    open_fds, bad_close, adiv6_log,
    lastop,
    fails, lastap, atrun,
    csw_written, tar_written, drw_n, csw_const,
    pc, cs, dev_ctl, done,
    flat, xl

shadow == <<dp_ctrl_stat, dp_id_code, ap_sel, ap_bank, ap_csw, ap_drw,
            ap_tar, ap_tar_inc>>
apregs == <<ap_csw, ap_drw, ap_tar, ap_tar_inc>>
chan == <<dmem_read, dmem_write, dmem_fd, open_fds, bad_close>>
flags == <<error_flagged_r, error_flagged_w, adiv6_log>>
stickyHist == <<fails, lastap, atrun>>
shadowHist == <<csw_written, tar_written, drw_n, csw_const>>
pollvars == <<pc, cs, dev_ctl, done>>
tilevars == <<flat, xl>>
vars == <<shadow, chan, flags, dmem_dap_retval, lastop, stickyHist,
          shadowHist, pollvars, tilevars>>

\* What the last call was and what it gave back to its caller.
Op(op, reg, adiv6, rc, data, nwr, nrd, addr) ==
    [op |-> op, reg |-> reg, adiv6 |-> adiv6, rc |-> rc, data |-> data,
     nwr |-> nwr, nrd |-> nrd, addr |-> addr]

\* The CoreSight transaction in flight (cs) and the one that ended last
\* (done): the AP call it serves, the local ctl, the pwrite()s and pread()s
\* issued, whether the pwrite() failed, and what each pread() gave
\* ("go": go = 1, "end": go = 0, "fail": rc < 0).
NoCall ==
    [op |-> "none", reg |-> 0, data |-> NoData, addr |-> Zero32,
     ctl |-> ZeroCtl, nwr |-> 0, nrd |-> 0, wfail |-> FALSE,
     reads |-> <<>>]
NoDone ==
    [op |-> "none", rc |-> ERROR_OK, value |-> NoData, ctl |-> ZeroCtl,
     nwr |-> 0, nrd |-> 0, wfail |-> FALSE, reads |-> <<>>]

\* No translation made yet.
NoXl == [tile |-> -1, addr |-> NoData, field |-> NoData]

InitDriver ==
    /\ dp_ctrl_stat = Zero32
    /\ dp_id_code = Zero32
    /\ ap_sel = 0
    /\ ap_bank = 0
    /\ ap_csw = Zero32
    /\ ap_drw = Zero32
    /\ ap_tar = Zero32
    /\ ap_tar_inc = 0
    /\ dmem_read = "NULL"
    /\ dmem_write = "NULL"
    /\ dmem_fd = -1
    /\ dmem_dap_retval = ERROR_OK
    /\ error_flagged_r = FALSE
    /\ error_flagged_w = FALSE
    /\ open_fds = {}
    /\ bad_close = FALSE
    /\ adiv6_log = 0
    /\ lastop = Op("init", 0, FALSE, ERROR_OK, NoData, 0, 0, Zero32)
    /\ fails = <<>>
    /\ lastap = "init"
    /\ atrun = [fails |-> <<>>, lastap |-> "init", prev |-> "init",
                prevrc |-> ERROR_OK, retval |-> ERROR_OK]
    /\ csw_written = NoData
    /\ tar_written = NoData
    /\ drw_n = 0
    /\ csw_const = TRUE
    /\ pc = "idle"
    /\ cs = NoCall
    /\ dev_ctl = ZeroCtl
    /\ done = NoDone

Init ==
    /\ InitDriver
    /\ flat = RSH_CS_ROM_BASE
    /\ xl = NoXl


\* ------------------------------------------------------------------------
\* Channel I/O: dmem_dev_read / dmem_dev_write against the device file
\* ------------------------------------------------------------------------
\* What the device file does to one CoreSight transaction: whether the
\* pwrite() of the control word fails, how many pread()s the polling loop
\* issues, whether the last of them fails (rc < 0) or reads go = 0, and the
\* data field of the control word it reads then.  pread()/pwrite() on
\* descriptor -1 fail (EBADF, so no ioctl fallback).
Resp(wfail, n, fail, data) ==
    [wfail |-> wfail, n |-> n, fail |-> fail, data |-> data]

Resps(fd, devdata) ==
    IF fd = -1
    THEN {Resp(TRUE, 1, TRUE, Zero32)}
    ELSE {Resp(w, n, f, d) : w \in BOOLEAN, n \in 1..MaxPolls,
                             f \in BOOLEAN, d \in devdata}

\* Only BD0..BD3 and DRW reach the channel; for the other registers the
\* device's answer is immaterial and one stands for all.
RespsFor(reg, fd, devdata) ==
    IF reg \in {ADIV5_MEM_AP_REG_BD0, ADIV5_MEM_AP_REG_BD1,
                ADIV5_MEM_AP_REG_BD2, ADIV5_MEM_AP_REG_BD3,
                ADIV5_MEM_AP_REG_DRW}
    THEN Resps(fd, devdata)
    ELSE {Resp(TRUE, 1, TRUE, Zero32)}

\* coresight_write: fails at once when the channel is not wired up; else
\* one dmem_write (result ignored) and dmem_read until rc < 0 or go = 0.
coresight_write(tile, addr, wdata, resp) ==
    IF dmem_read = "NULL" \/ dmem_write = "NULL"
    THEN [rc |-> ERROR_FAIL, nwr |-> 0, nrd |-> 0]
    ELSE IF resp.fail
         THEN [rc |-> IO_ERR, nwr |-> 1, nrd |-> resp.n]
         ELSE [rc |-> ERROR_OK, nwr |-> 1, nrd |-> resp.n]

\* coresight_read: as coresight_write, and *value is stored only after the
\* loop has left with go = 0.
coresight_read(tile, addr, resp) ==
    IF dmem_read = "NULL" \/ dmem_write = "NULL"
    THEN [rc |-> ERROR_FAIL, value |-> NoData, nwr |-> 0, nrd |-> 0]
    ELSE IF resp.fail
         THEN [rc |-> IO_ERR, value |-> NoData, nwr |-> 1, nrd |-> resp.n]
         ELSE [rc |-> ERROR_OK, value |-> resp.data, nwr |-> 1,
               nrd |-> resp.n]

\* ------------------------------------------------------------------------
\* Pieces of the AP handlers
\* ------------------------------------------------------------------------
\* Mutation of StickyAfter: the status is stored on success too.
StickyAfter_always(rc, old) == rc

\* "Track the last error code": if (rc != ERROR_OK) dmem_dap_retval = rc;
StickyAfter(rc, old) == IF rc # ERROR_OK THEN rc ELSE old

\* Mutation of TarIncAfter: the increment advances on a failed access too.
TarIncAfter_anyrc(rc, csw, inc) ==
    IF CswAddrinc(csw) # 0 THEN inc + CswStride(csw) ELSE inc

\* if (!rc && (ap_csw & CSW_ADDRINC_MASK)) ap_tar_inc += (ap_csw & 0x03) * 2;
TarIncAfter(rc, csw, inc) ==
    IF rc = ERROR_OK /\ CswAddrinc(csw) # 0
    THEN inc + CswStride(csw)
    ELSE inc

\* Mutation of BankRejects: the bank is not looked at.
BankRejects_never(bank) == FALSE

\* if (ap_bank != 0) { dmem_dap_retval = ERROR_FAIL; return ERROR_FAIL; }
BankRejects(bank) == bank # 0

\* Mutation of ReadCsw: the read hands back the DRW stub.
ReadCsw_drw(csw, drw) == drw

\* case ADIV5_MEM_AP_REG_CSW: *data = ap_csw;
ReadCsw(csw, drw) == csw

\* case ADIV5_MEM_AP_REG_CSW: ap_csw = data;
WriteCsw(data, csw) == data

\* case ADIV5_MEM_AP_REG_TAR: ap_tar = data; ap_tar_inc = 0;
WriteTarInc(inc) == 0

\* Mutation of RunClear: run does not clear the error code.
RunClear_keep(old) == old

\* dmem_dp_run: dmem_dap_retval = ERROR_OK;
RunClear(old) == ERROR_OK

\* Mutation of Adiv6Logs: the flag is not looked at, every call logs.
Adiv6Logs_always(error_flagged, n) == n + 1

\* if (!error_flagged) LOG_ERROR("ADIv6 dap not supported ...");
\* n counts the lines logged so far; error_flagged is the static of the
\* handler that is running.
Adiv6Logs(error_flagged, n) == IF error_flagged THEN n ELSE n + 1

\* The body of dmem_ap_q_read past the ADIv6 check: the status, the value
\* stored to *data, the new ap_tar_inc, and the channel traffic.
ApReadBody(ap_num, reg, resp) ==
    CASE reg = ADIV5_MEM_AP_REG_CSW ->
           [rc |-> ERROR_OK, data |-> ReadCsw(ap_csw, ap_drw),
            inc |-> ap_tar_inc, nwr |-> 0, nrd |-> 0, addr |-> Zero32]
      [] reg = ADIV5_MEM_AP_REG_CFG ->
           [rc |-> ERROR_OK, data |-> Zero32,
            inc |-> ap_tar_inc, nwr |-> 0, nrd |-> 0, addr |-> Zero32]
      [] reg = ADIV5_MEM_AP_REG_BASE ->
           [rc |-> ERROR_OK, data |-> RSH_CS_ROM_BASE,
            inc |-> ap_tar_inc, nwr |-> 0, nrd |-> 0, addr |-> Zero32]
      [] reg = ADIV5_AP_REG_IDR ->
           [rc |-> ERROR_OK,
            data |-> IF ap_num = 0 THEN APB_AP_IDR ELSE Zero32,
            inc |-> ap_tar_inc, nwr |-> 0, nrd |-> 0, addr |-> Zero32]
      [] reg \in BDRegs ->
           LET a == BDAddr(ap_tar, reg)
               t == ap_addr_2_tile(a)
               r == coresight_read(t.tile, t.addr, resp)
           IN  [rc |-> r.rc, data |-> r.value, inc |-> ap_tar_inc,
                nwr |-> r.nwr, nrd |-> r.nrd, addr |-> a]
      [] reg = ADIV5_MEM_AP_REG_DRW ->
           LET a == DRWAddr(ap_tar, ap_tar_inc)
               t == ap_addr_2_tile(a)
               r == coresight_read(t.tile, t.addr, resp)
           IN  [rc |-> r.rc, data |-> r.value,
                inc |-> TarIncAfter(r.rc, ap_csw, ap_tar_inc),
                nwr |-> r.nwr, nrd |-> r.nrd, addr |-> a]
      [] OTHER ->
           [rc |-> ERROR_FAIL, data |-> NoData,
            inc |-> ap_tar_inc, nwr |-> 0, nrd |-> 0, addr |-> Zero32]

\* The switch of dmem_ap_q_write (reached with ap_bank = 0).
ApWriteBody(reg, data, resp) ==
    CASE reg = ADIV5_MEM_AP_REG_CSW ->
           [rc |-> ERROR_OK, csw |-> WriteCsw(data, ap_csw), tar |-> ap_tar,
            inc |-> ap_tar_inc, drw |-> ap_drw,
            nwr |-> 0, nrd |-> 0, addr |-> Zero32]
      [] reg = ADIV5_MEM_AP_REG_TAR ->
           [rc |-> ERROR_OK, csw |-> ap_csw, tar |-> data,
            inc |-> WriteTarInc(ap_tar_inc), drw |-> ap_drw,
            nwr |-> 0, nrd |-> 0, addr |-> Zero32]
      [] reg \in BDRegs ->
           LET a == BDAddr(ap_tar, reg)
               t == ap_addr_2_tile(a)
               r == coresight_write(t.tile, t.addr, data, resp)
           IN  [rc |-> r.rc, csw |-> ap_csw, tar |-> ap_tar,
                inc |-> ap_tar_inc, drw |-> ap_drw,
                nwr |-> r.nwr, nrd |-> r.nrd, addr |-> a]
      [] reg = ADIV5_MEM_AP_REG_DRW ->
           LET a == DRWAddr(ap_tar, ap_tar_inc)
               t == ap_addr_2_tile(a)
               r == coresight_write(t.tile, t.addr, data, resp)
           IN  [rc |-> r.rc, csw |-> ap_csw, tar |-> ap_tar,
                inc |-> TarIncAfter(r.rc, ap_csw, ap_tar_inc),
                drw |-> data,
                nwr |-> r.nwr, nrd |-> r.nrd, addr |-> a]
      [] OTHER ->
           [rc |-> EINVAL, csw |-> ap_csw, tar |-> ap_tar,
            inc |-> ap_tar_inc, drw |-> ap_drw,
            nwr |-> 0, nrd |-> 0, addr |-> Zero32]


\* ------------------------------------------------------------------------
\* The DAP operations (struct dap_ops dmem_dap_ops)
\* ------------------------------------------------------------------------
\* open(): the lowest descriptor not in use.
NewFd ==
    CHOOSE f \in FirstFd..(FirstFd + MaxOpenFds) :
        /\ f \notin open_fds
        /\ \A g \in FirstFd..(f - 1) : g \in open_fds

\* dmem_connect.  opens: whether open() succeeds; it cannot once the process
\* holds MaxOpenFds descriptors.
dmem_connect(opens) ==
    /\ opens => Cardinality(open_fds) < MaxOpenFds
    /\ IF opens
       THEN /\ dmem_fd' = NewFd
            /\ open_fds' = open_fds \cup {NewFd}
            /\ dmem_read' = "dmem_dev_read"
            /\ dmem_write' = "dmem_dev_write"
            /\ lastop' = Op("connect", 0, FALSE, ERROR_OK, NoData, 0, 0, Zero32)
       ELSE /\ dmem_fd' = -1
            /\ UNCHANGED <<open_fds, dmem_read, dmem_write>>
            /\ lastop' = Op("connect", 0, FALSE, ERROR_FAIL, NoData, 0, 0, Zero32)
    /\ UNCHANGED <<shadow, flags, dmem_dap_retval, bad_close>>

\* dmem_disconnect (the .quit operation).
dmem_disconnect ==
    /\ IF dmem_fd # -1
       THEN /\ open_fds' = open_fds \ {dmem_fd}
            /\ bad_close' = (bad_close \/ dmem_fd \notin open_fds)
            /\ dmem_fd' = -1
       ELSE UNCHANGED <<open_fds, bad_close, dmem_fd>>
    /\ lastop' = Op("disconnect", 0, FALSE, ERROR_OK, NoData, 0, 0, Zero32)
    /\ UNCHANGED <<shadow, flags, dmem_dap_retval, dmem_read, dmem_write>>

\* dmem_dp_q_read.  hasdata: whether the caller passed a non-null data.
dmem_dp_q_read(reg, hasdata) ==
    /\ lastop' = Op("dp_read", reg, FALSE, ERROR_OK,
                    IF ~hasdata THEN NoData
                    ELSE IF reg = DP_DPIDR THEN dp_id_code
                    ELSE IF reg = DP_CTRL_STAT THEN PWRUPACK
                    ELSE NoData,
                    0, 0, Zero32)
    /\ UNCHANGED <<shadow, chan, flags, dmem_dap_retval>>

\* dmem_dp_q_write.
dmem_dp_q_write(reg, data) ==
    /\ dp_ctrl_stat' = IF reg = DP_CTRL_STAT THEN data ELSE dp_ctrl_stat
    /\ ap_sel' = IF reg = DP_SELECT THEN SelectApsel(data) ELSE ap_sel
    /\ ap_bank' = IF reg = DP_SELECT THEN SelectApbank(data) ELSE ap_bank
    /\ lastop' = Op("dp_write", reg, FALSE, ERROR_OK, data, 0, 0, Zero32)
    /\ UNCHANGED <<dp_id_code, apregs, chan, flags, dmem_dap_retval>>

\* dmem_ap_q_read.  adiv6: is_adiv6(ap->dap); ap_num: ap->ap_num.
dmem_ap_q_read(adiv6, ap_num, reg, resp) ==
    /\ reg = ADIV5_MEM_AP_REG_DRW => ap_tar_inc < MaxTarInc
    /\ IF adiv6
       THEN /\ adiv6_log' = Adiv6Logs(error_flagged_r, adiv6_log)
            /\ error_flagged_r' = TRUE
            /\ lastop' = Op("ap_read", reg, TRUE, ERROR_FAIL, NoData,
                            0, 0, Zero32)
            /\ UNCHANGED <<ap_tar_inc, dmem_dap_retval>>
       ELSE LET r == ApReadBody(ap_num, reg, resp)
            IN  /\ ap_tar_inc' = r.inc
                /\ dmem_dap_retval' = StickyAfter(r.rc, dmem_dap_retval)
                /\ lastop' = Op("ap_read", reg, FALSE, r.rc, r.data,
                                r.nwr, r.nrd, r.addr)
                /\ UNCHANGED <<error_flagged_r, adiv6_log>>
    /\ UNCHANGED <<dp_ctrl_stat, dp_id_code, ap_sel, ap_bank, ap_csw,
                   ap_drw, ap_tar, chan, error_flagged_w>>

\* dmem_ap_q_write.
dmem_ap_q_write(adiv6, reg, data, resp) ==
    /\ reg = ADIV5_MEM_AP_REG_DRW => ap_tar_inc < MaxTarInc
    /\ IF adiv6
       THEN /\ adiv6_log' = Adiv6Logs(error_flagged_w, adiv6_log)
            /\ error_flagged_w' = TRUE
            /\ lastop' = Op("ap_write", reg, TRUE, ERROR_FAIL, data,
                            0, 0, Zero32)
            /\ UNCHANGED <<apregs, dmem_dap_retval>>
       ELSE IF BankRejects(ap_bank)
       THEN /\ dmem_dap_retval' = ERROR_FAIL
            /\ lastop' = Op("ap_write", reg, FALSE, ERROR_FAIL, data,
                            0, 0, Zero32)
            /\ UNCHANGED <<apregs, error_flagged_w, adiv6_log>>
       ELSE LET r == ApWriteBody(reg, data, resp)
            IN  /\ ap_csw' = r.csw
                /\ ap_tar' = r.tar
                /\ ap_tar_inc' = r.inc
                /\ ap_drw' = r.drw
                /\ dmem_dap_retval' = StickyAfter(r.rc, dmem_dap_retval)
                /\ lastop' = Op("ap_write", reg, FALSE, r.rc, data,
                                r.nwr, r.nrd, r.addr)
                /\ UNCHANGED <<error_flagged_w, adiv6_log>>
    /\ UNCHANGED <<dp_ctrl_stat, dp_id_code, ap_sel, ap_bank, chan,
                   error_flagged_r>>

\* dmem_ap_q_abort.
dmem_ap_q_abort ==
    /\ lastop' = Op("abort", 0, FALSE, ERROR_OK, NoData, 0, 0, Zero32)
    /\ UNCHANGED <<shadow, chan, flags, dmem_dap_retval>>

\* dmem_dp_run: hand back the sticky error code and clear it.
dmem_dp_run ==
    /\ lastop' = Op("run", 0, FALSE, dmem_dap_retval, NoData, 0, 0, Zero32)
    /\ dmem_dap_retval' = RunClear(dmem_dap_retval)
    /\ UNCHANGED <<shadow, chan, flags>>

\* ------------------------------------------------------------------------
\* History variables (they record, they never steer the program)
\* ------------------------------------------------------------------------
IsApOp(o) == o.op \in {"ap_read", "ap_write"}

Last2(q) == IF Len(q) > 2 THEN Tail(q) ELSE q

\* fails: the (up to two) latest failures AP operations returned since the
\* last run; lastap: how the latest AP operation since the last run ended
\* ("none": there was none since that run; "init": nor was there a run);
\* atrun: right after a run, what fails, lastap, lastop and dmem_dap_retval
\* were when it was called.
StickyObs ==
    /\ atrun' = IF lastop'.op = "run"
                THEN [fails |-> fails, lastap |-> lastap,
                      prev |-> lastop.op, prevrc |-> lastop.rc,
                      retval |-> dmem_dap_retval]
                ELSE [fails |-> <<>>, lastap |-> "init", prev |-> "init",
                      prevrc |-> ERROR_OK, retval |-> ERROR_OK]
    /\ fails' = IF lastop'.op = "run" THEN <<>>
                ELSE IF IsApOp(lastop') /\ lastop'.rc # ERROR_OK
                THEN Last2(Append(fails, [rc |-> lastop'.rc,
                                          adiv6 |-> lastop'.adiv6]))
                ELSE fails
    /\ lastap' = IF lastop'.op = "run" THEN "none"
                 ELSE IF IsApOp(lastop')
                 THEN (IF lastop'.rc = ERROR_OK THEN "ok" ELSE "fail")
                 ELSE lastap

\* csw_written, tar_written: the value of the latest CSW / TAR write that
\* returned success;
\* drw_n: DRW accesses that returned success, with the address increment
\* enabled in CSW, since the latest TAR write;
\* csw_const: CSW kept one value over all of those accesses.
ShadowObs ==
    LET o == lastop'
        okw(reg) == o.op = "ap_write" /\ o.reg = reg /\ o.rc = ERROR_OK
        drwok == IsApOp(o) /\ o.reg = ADIV5_MEM_AP_REG_DRW
                 /\ o.rc = ERROR_OK /\ CswAddrinc(ap_csw) # 0
    IN  /\ csw_written' = IF okw(ADIV5_MEM_AP_REG_CSW) THEN o.data
                          ELSE csw_written
        /\ tar_written' = IF okw(ADIV5_MEM_AP_REG_TAR) THEN o.data
                          ELSE tar_written
        /\ drw_n' = IF okw(ADIV5_MEM_AP_REG_TAR) THEN 0
                    ELSE IF drwok THEN drw_n + 1
                    ELSE drw_n
        /\ csw_const' = IF okw(ADIV5_MEM_AP_REG_TAR) THEN TRUE
                        ELSE IF okw(ADIV5_MEM_AP_REG_CSW) /\ drw_n > 0
                                /\ o.data # ap_csw
                        THEN FALSE
                        ELSE csw_const


\* ------------------------------------------------------------------------
\* Specification Spec: error latching and run (sticky error code).
\* All failure paths of the AP handlers are exercised; the register values
\* written are kept to one, since they do not steer the status.
\* ------------------------------------------------------------------------
StickyRegs == {ADIV5_MEM_AP_REG_CSW, ADIV5_MEM_AP_REG_TAR,
               ADIV5_MEM_AP_REG_DRW, ADIV5_MEM_AP_REG_CFG}
StickyData == {Zero32}
\* DP SELECT values: bank 0 and bank 1 of AP 0
SelectData == {Zero32, U32(0, 16)}

Sticky(A) ==
    A /\ StickyObs /\ UNCHANGED <<shadowHist, pollvars, tilevars>>

S_connect == Sticky(\E o \in BOOLEAN : dmem_connect(o))
S_disconnect == Sticky(dmem_disconnect)
S_dp_q_read == Sticky(\E reg \in {DP_DPIDR, DP_CTRL_STAT, DP_SELECT} :
                          dmem_dp_q_read(reg, TRUE))
S_dp_q_write == Sticky(\E d \in SelectData : dmem_dp_q_write(DP_SELECT, d))
S_ap_q_read ==
    Sticky(\E a \in BOOLEAN, reg \in StickyRegs :
              \E resp \in RespsFor(reg, dmem_fd, StickyData) :
                  dmem_ap_q_read(a, 0, reg, resp))
S_ap_q_write ==
    Sticky(\E a \in BOOLEAN, reg \in StickyRegs, d \in StickyData :
              \E resp \in RespsFor(reg, dmem_fd, StickyData) :
                  dmem_ap_q_write(a, reg, d, resp))
S_ap_q_abort == Sticky(dmem_ap_q_abort)
S_dp_run == Sticky(dmem_dp_run)

Next ==
    \/ S_connect
    \/ S_disconnect
    \/ S_dp_q_read
    \/ S_dp_q_write
    \/ S_ap_q_read
    \/ S_ap_q_write
    \/ S_ap_q_abort
    \/ S_dp_run

Spec == Init /\ [][Next]_vars


\* ------------------------------------------------------------------------
\* Properties of the sticky error code (checked under Spec)
\* ------------------------------------------------------------------------
LastFail(q) == q[Len(q)]

\* C1: every AP read or write that returns a non-success status leaves
\* dmem_dap_retval equal to that status.
C1_EveryFailureLatched ==
    (IsApOp(lastop) /\ lastop.rc # ERROR_OK)
        => dmem_dap_retval = lastop.rc

\* C2 as claimed: a run that follows a failing AP operation and then a
\* successful AP operation (no run in between) returns success.
C2_SuccessClears ==
    (lastop.op = "run" /\ atrun.fails # <<>> /\ atrun.lastap = "ok")
        => lastop.rc = ERROR_OK

\* The status dmem_dap_retval holds for a list of failures: the latest one
\* that did not come from the ADIv6 rejection.
Latched(q) ==
    IF ~LastFail(q).adiv6 THEN LastFail(q).rc
    ELSE IF Len(q) = 2 /\ ~q[1].adiv6 THEN q[1].rc
    ELSE ERROR_OK

\* C2 as amended: a run that follows a failing AP operation and then a
\* successful AP operation (no run in between) returns the status of the
\* latest failure since the previous run that was latched: the successful
\* operation does not clear it.  (Two ADIv6 rejections in a row say nothing
\* about what was latched before them.)
C2_SuccessKeepsError ==
    (lastop.op = "run" /\ atrun.fails # <<>> /\ atrun.lastap = "ok"
     /\ ~(Len(atrun.fails) = 2 /\ atrun.fails[1].adiv6
          /\ atrun.fails[2].adiv6))
        => lastop.rc = Latched(atrun.fails)

C2_Witness ==
    /\ lastop.op = "run"
    /\ atrun.lastap = "ok"
    /\ Len(atrun.fails) = 1
    /\ ~atrun.fails[1].adiv6
    /\ lastop.rc = atrun.fails[1].rc
    /\ lastop.rc # ERROR_OK

\* C3: when two AP operations failed with different codes since the last
\* run, run returns the code of the later one.
C3_LastFailureWins ==
    (lastop.op = "run" /\ Len(atrun.fails) = 2
     /\ atrun.fails[1].rc # atrun.fails[2].rc)
        => lastop.rc = atrun.fails[2].rc

\* C4: run returns the sticky error code it finds and leaves it at success,
\* so a run with no AP operation since the previous run returns success.
C4_RunResets ==
    lastop.op = "run"
        => /\ lastop.rc = atrun.retval
           /\ dmem_dap_retval = ERROR_OK
           /\ atrun.lastap = "none" => lastop.rc = ERROR_OK

C4_Witness ==
    /\ lastop.op = "run"
    /\ atrun.prev = "run"
    /\ atrun.prevrc # ERROR_OK
    /\ atrun.lastap = "none"
    /\ lastop.rc = ERROR_OK


\* ------------------------------------------------------------------------
\* Specification SpecShadow: the CSW / TAR / DRW register stubs.
\* The AP registers are written with values that switch the address
\* increment off, to one and to three units, and that put TAR below the ROM
\* base, into a cluster tile and at the top of the address space.
\* ------------------------------------------------------------------------
ShadowRegs == {ADIV5_MEM_AP_REG_CSW, ADIV5_MEM_AP_REG_TAR,
               ADIV5_MEM_AP_REG_DRW, ADIV5_MEM_AP_REG_BD0}
\* 0x00000011, 0xFFFFFFFF
ShadowData == {U32(0, 17), U32(65535, 65535)}
\* 0xDEADBEEF
DevData == {U32(57005, 48879)}
\* The values written to a register: CSW and TAR take the values that
\* steer the addressing, the data registers take the payload.
WriteData(reg) ==
    IF reg \in {ADIV5_MEM_AP_REG_CSW, ADIV5_MEM_AP_REG_TAR}
    THEN ShadowData
    ELSE DevData

Shadowed(A) ==
    A /\ ShadowObs /\ UNCHANGED <<stickyHist, pollvars, tilevars>>

R_connect == Shadowed(dmem_connect(TRUE))
R_disconnect == Shadowed(dmem_disconnect)
R_dp_q_read == Shadowed(dmem_dp_q_read(DP_CTRL_STAT, TRUE))
R_dp_q_write == Shadowed(\E d \in SelectData : dmem_dp_q_write(DP_SELECT, d))
R_ap_q_read ==
    Shadowed(\E reg \in ShadowRegs :
                \E resp \in RespsFor(reg, dmem_fd, DevData) :
                    dmem_ap_q_read(FALSE, 0, reg, resp))
R_ap_q_write ==
    Shadowed(\E a \in BOOLEAN, reg \in ShadowRegs :
                \E d \in WriteData(reg),
                   resp \in RespsFor(reg, dmem_fd, DevData) :
                    dmem_ap_q_write(a, reg, d, resp))
R_ap_q_abort == Shadowed(dmem_ap_q_abort)
R_dp_run == Shadowed(dmem_dp_run)

NextShadow ==
    \/ R_connect
    \/ R_disconnect
    \/ R_dp_q_read
    \/ R_dp_q_write
    \/ R_ap_q_read
    \/ R_ap_q_write
    \/ R_ap_q_abort
    \/ R_dp_run

SpecShadow == Init /\ [][NextShadow]_vars


\* ------------------------------------------------------------------------
\* Properties of the register stubs (checked under SpecShadow)
\* ------------------------------------------------------------------------
IsRead(o, reg) == o.op = "ap_read" /\ o.reg = reg /\ ~o.adiv6
IsDrw(o) == IsApOp(o) /\ o.reg = ADIV5_MEM_AP_REG_DRW /\ ~o.adiv6

\* C5: a read of TAR that follows a successful write of TAR returns
\* success and the value written.
C5_TarRoundTrip ==
    (IsRead(lastop, ADIV5_MEM_AP_REG_TAR) /\ tar_written # NoData)
        => (lastop.rc = ERROR_OK /\ lastop.data = tar_written)

\* C6: a read of CSW returns success and the value of the latest
\* successful CSW write, whatever DP operations, AP reads, BD/DRW accesses
\* and run calls came in between.
C6_CswRoundTrip ==
    (IsRead(lastop, ADIV5_MEM_AP_REG_CSW) /\ csw_written # NoData)
        => (lastop.rc = ERROR_OK /\ lastop.data = csw_written)

C6_Witness ==
    /\ IsRead(lastop, ADIV5_MEM_AP_REG_CSW)
    /\ csw_written = U32(65535, 65535)
    /\ lastop.data = U32(65535, 65535)
    /\ ap_bank # 0
    /\ drw_n > 0
    /\ dmem_dap_retval # ERROR_OK

\* C7: a TAR write leaves ap_tar_inc at 0; after N successful DRW accesses
\* under one CSW value with the increment enabled, ap_tar_inc is
\* N * 2 * (CSW & 3) (failed accesses are not among the N), and a DRW
\* access is issued for (TAR & ~3) plus the increment of the successful
\* accesses before it.
C7_AutoIncrement ==
    /\ (lastop.op = "ap_write" /\ lastop.reg = ADIV5_MEM_AP_REG_TAR
        /\ lastop.rc = ERROR_OK) => ap_tar_inc = 0
    /\ (csw_const /\ CswAddrinc(ap_csw) # 0)
           => ap_tar_inc = drw_n * CswStride(ap_csw)
    /\ (csw_const /\ CswAddrinc(ap_csw) # 0 /\ IsDrw(lastop)
        /\ lastop.nwr > 0)
           => lastop.addr =
                Add32(U32(ap_tar[1], ap_tar[2] - (ap_tar[2] % 4)),
                      (drw_n - (IF lastop.rc = ERROR_OK THEN 1 ELSE 0))
                          * CswStride(ap_csw))

C7_Witness ==
    /\ IsDrw(lastop)
    /\ lastop.rc = ERROR_OK
    /\ csw_const
    /\ ap_csw = U32(0, 17)
    /\ ap_tar = U32(65535, 65535)
    /\ drw_n = 3
    /\ ap_tar_inc = 6
    /\ lastop.addr = U32(0, 0)
    /\ dmem_dap_retval = IO_ERR

\* C8: an AP write made while ap_bank is not 0 returns failure, issues no
\* channel transaction and leaves ap_csw, ap_tar, ap_tar_inc and ap_drw as
\* they were.
C8_BankRejected ==
    [][(lastop'.op = "ap_write" /\ ap_bank # 0)
          => /\ lastop'.rc # ERROR_OK
             /\ lastop'.nwr = 0
             /\ lastop'.nrd = 0
             /\ UNCHANGED apregs]_vars

C8_Witness ==
    /\ lastop.op = "ap_write"
    /\ ~lastop.adiv6
    /\ lastop.reg = ADIV5_MEM_AP_REG_DRW
    /\ ap_bank # 0
    /\ dmem_fd # -1
    /\ lastop.rc = ERROR_FAIL
    /\ lastop.nwr = 0
    /\ lastop.data # ap_drw


\* C11: right after a successful connect the AP shadow state is all zero:
\* ap_csw, ap_tar, ap_tar_inc, ap_drw and ap_bank hold nothing that was
\* written before this connect (in an earlier connection or otherwise).
C11_ConnectZeroesShadow ==
    (lastop.op = "connect" /\ lastop.rc = ERROR_OK)
        => /\ ap_csw = Zero32
           /\ ap_tar = Zero32
           /\ ap_tar_inc = 0
           /\ ap_drw = Zero32
           /\ ap_bank = 0


\* ------------------------------------------------------------------------
\* Specification SpecLife: connect / disconnect and the device handle.
\* ------------------------------------------------------------------------
LifeRegs == {ADIV5_MEM_AP_REG_CSW, ADIV5_MEM_AP_REG_DRW}

Life(A) ==
    A /\ UNCHANGED <<stickyHist, shadowHist, pollvars, tilevars>>

L_connect == Life(\E o \in BOOLEAN : dmem_connect(o))
L_disconnect == Life(dmem_disconnect)
L_dp_q_read == Life(\E reg \in {DP_DPIDR, DP_CTRL_STAT}, h \in BOOLEAN :
                        dmem_dp_q_read(reg, h))
L_dp_q_write == Life(\E reg \in {DP_CTRL_STAT, DP_SELECT}, d \in SelectData :
                         dmem_dp_q_write(reg, d))
L_ap_q_read ==
    Life(\E reg \in LifeRegs :
            \E resp \in RespsFor(reg, dmem_fd, DevData) :
                dmem_ap_q_read(FALSE, 0, reg, resp))
L_ap_q_write ==
    Life(\E reg \in LifeRegs :
            \E d \in DevData, resp \in RespsFor(reg, dmem_fd, DevData) :
                dmem_ap_q_write(FALSE, reg, d, resp))
L_ap_q_abort == Life(dmem_ap_q_abort)
L_dp_run == Life(dmem_dp_run)

NextLife ==
    \/ L_connect
    \/ L_disconnect
    \/ L_dp_q_read
    \/ L_dp_q_write
    \/ L_ap_q_read
    \/ L_ap_q_write
    \/ L_ap_q_abort
    \/ L_dp_run

SpecLife == Init /\ [][NextLife]_vars

\* ------------------------------------------------------------------------
\* Properties of the connection (checked under SpecLife)
\* ------------------------------------------------------------------------
\* No device handle is bound: before the first successful connect, after a
\* failed connect, after disconnect.
Disconnected == dmem_fd = -1

\* C9: while the adapter is disconnected every DP/AP register operation
\* fails, and no channel read or write is attempted.
C9_DisconnectedFails ==
    (Disconnected
     /\ lastop.op \in {"dp_read", "dp_write", "ap_read", "ap_write"})
        => (lastop.rc # ERROR_OK /\ lastop.nwr = 0 /\ lastop.nrd = 0)

\* C10: no handle is closed twice, and every handle the process holds open
\* is the one dmem_fd names, so none is lost and at most one is open (none
\* after a failed connect or a disconnect).
C10_HandleClosedOnce ==
    /\ ~bad_close
    /\ open_fds \subseteq {dmem_fd}
    /\ Cardinality(open_fds) <= 1


\* ------------------------------------------------------------------------
\* Specification SpecV6: AP accesses through ADIv5 and ADIv6 DAPs.
\* ------------------------------------------------------------------------
V6Regs == {ADIV5_MEM_AP_REG_CSW, ADIV5_MEM_AP_REG_DRW}

V_connect == Life(dmem_connect(TRUE))
V_dp_q_write == Life(\E d \in SelectData : dmem_dp_q_write(DP_SELECT, d))
V_ap_q_read ==
    Life(\E a \in BOOLEAN, reg \in V6Regs :
            \E resp \in RespsFor(reg, dmem_fd, DevData) :
                dmem_ap_q_read(a, 0, reg, resp))
V_ap_q_write ==
    Life(\E a \in BOOLEAN, reg \in V6Regs :
            \E d \in WriteData(reg),
               resp \in RespsFor(reg, dmem_fd, DevData) :
                dmem_ap_q_write(a, reg, d, resp))
V_dp_run == Life(dmem_dp_run)

NextV6 ==
    \/ V_connect
    \/ V_dp_q_write
    \/ V_ap_q_read
    \/ V_ap_q_write
    \/ V_dp_run

SpecV6 == Init /\ [][NextV6]_vars

\* ------------------------------------------------------------------------
\* Properties of the ADIv6 rejection (checked under SpecV6)
\* ------------------------------------------------------------------------
IsV6(o) == IsApOp(o) /\ o.adiv6

\* C12 as claimed: an AP read or write through an ADIv6 DAP fails without a
\* channel transaction, and the 'not supported' line is logged at most once
\* in total, whatever the mix of reads and writes.
C12_WarnsOnceInTotal ==
    /\ IsV6(lastop) => (lastop.rc # ERROR_OK /\ lastop.nwr = 0
                        /\ lastop.nrd = 0)
    /\ adiv6_log <= 1

\* C12, amended: an AP read or write through an ADIv6 DAP returns
\* ERROR_FAIL, issues no channel transaction and changes no shadow register
\* and nothing of the channel; the 'not supported' line is logged once by the
\* first such read and once by the first such write, so at most twice.
C12_WarnsOncePerHandler ==
    [][/\ IsV6(lastop')
          => /\ lastop'.rc = ERROR_FAIL
             /\ lastop'.nwr = 0
             /\ lastop'.nrd = 0
             /\ UNCHANGED <<shadow, chan>>
       /\ adiv6_log' - adiv6_log =
              IF \/ lastop'.op = "ap_read" /\ lastop'.adiv6
                    /\ ~error_flagged_r
                 \/ lastop'.op = "ap_write" /\ lastop'.adiv6
                    /\ ~error_flagged_w
              THEN 1 ELSE 0
       /\ adiv6_log' <= 2]_vars

C12_Witness ==
    /\ IsV6(lastop)
    /\ lastop.op = "ap_read"
    /\ lastop.reg = ADIV5_MEM_AP_REG_DRW
    /\ adiv6_log = 2
    /\ dmem_fd # -1
    /\ ap_csw = U32(0, 17)
    /\ ap_tar_inc = 2
    /\ ap_drw # Zero32


\* ------------------------------------------------------------------------
\* Specification SpecTile: the address translation and the address field of
\* the control word, as functions of the flat address.
\* ------------------------------------------------------------------------
\* High and low halves of the flat addresses tried: the ends of the root
\* table and of the tile windows, a few addresses within, a few below the
\* ROM base.
FlatHi == {0, 17408, 32767,
           32768, 32769, 33791, 33792, 34832, 49151, 49152, 50175,
           50176, 50192, 51199, 51200, 64511, 64512, 65535}
FlatLo == {0, 1, 3, 4, 256, 65532, 65535}
FlatAddrs == {U32(h, l) : h \in FlatHi, l \in FlatLo}

\* The address field coresight_read / coresight_write put in the control
\* word for a flat AP address.
TileField(addr) ==
    LET t == ap_addr_2_tile(addr)
    IN  AddrField(CtlAddr(t.tile, t.addr))

InitTile ==
    /\ InitDriver
    /\ flat \in FlatAddrs
    /\ xl = NoXl

\* ap_addr_2_tile(&tile, &addr) and the encoding of its result.
Translate ==
    /\ xl = NoXl
    /\ xl' = [tile |-> ap_addr_2_tile(flat).tile,
              addr |-> ap_addr_2_tile(flat).addr,
              field |-> TileField(flat)]
    /\ UNCHANGED <<shadow, chan, flags, dmem_dap_retval, lastop,
                   stickyHist, shadowHist, pollvars, flat>>

NextTile == Translate

SpecTile == InitTile /\ [][NextTile]_vars

\* ------------------------------------------------------------------------
\* Properties of the address translation (checked under SpecTile)
\* ------------------------------------------------------------------------
\* flat has been translated and lies at or above the ROM base.
Translated == xl # NoXl /\ ~Lt32(flat, RSH_CS_ROM_BASE)

\* C17: for a flat address at or above the ROM base, ROM base + offset
\* (tile = 0) or ROM base + tile base + (tile - 1) * tile size + offset
\* (tile > 0), computed without wrap-around, is the flat address.  (All
\* three constants are multiples of 2^16, so the sum has no carry from the
\* low half.)
C17_Reconstructs ==
    Translated
        => /\ xl.tile >= 0
           /\ flat[2] = xl.addr[2]
           /\ flat[1] =
                IF xl.tile = 0
                THEN RSH_CS_ROM_BASE[1] + xl.addr[1]
                ELSE RSH_CS_ROM_BASE[1] + RSH_CS_TILE_BASE[1]
                     + (xl.tile - 1) * RSH_CS_TILE_SIZE[1] + xl.addr[1]

C17_Witness ==
    /\ Translated
    /\ flat = U32(51200, 65532)
    /\ xl.tile = 2
    /\ xl.addr = U32(0, 65532)

\* C18 as claimed: for a flat address at or above the ROM base the offset
\* is below the tile size, for tile 0 as well as for tile > 0.
C18_OffsetBelowTileSize ==
    Translated => Lt32(xl.addr, RSH_CS_TILE_SIZE)

\* C18, amended: for a flat address at or above the ROM base the offset is
\* below the tile size when tile > 0, and below the tile base (the size of
\* the root table's window) when tile = 0.
C18_OffsetBelowWindow ==
    Translated
        => IF xl.tile = 0
           THEN Lt32(xl.addr, RSH_CS_TILE_BASE)
           ELSE Lt32(xl.addr, RSH_CS_TILE_SIZE)

C18_Witness ==
    /\ Translated
    /\ xl.tile = 0
    /\ xl.addr = U32(17407, 65535)
    /\ ~Lt32(xl.addr, RSH_CS_TILE_SIZE)

\* C19 as claimed: 0x84000100 translates to tile 0, offset 0x00000100, and
\* 0x88100000 to tile 1, offset 0x00100000.
C19_ExampleAsClaimed ==
    /\ (xl # NoXl /\ flat = U32(33792, 256))
           => (xl.tile = 0 /\ xl.addr = U32(0, 256))
    /\ (xl # NoXl /\ flat = U32(34832, 0))
           => (xl.tile = 1 /\ xl.addr = U32(16, 0))

\* C19, amended: 0x84000100 translates to tile 0, offset 0x04000100, and
\* 0x88100000 to tile 0, offset 0x08100000.
C19_Example ==
    /\ (xl # NoXl /\ flat = U32(33792, 256))
           => (xl.tile = 0 /\ xl.addr = U32(1024, 256))
    /\ (xl # NoXl /\ flat = U32(34832, 0))
           => (xl.tile = 0 /\ xl.addr = U32(2064, 0))

C19_Witness ==
    /\ xl # NoXl
    /\ flat = U32(34832, 0)
    /\ xl.field = U32(516, 0)

\* C20: for a flat address A at or above the ROM base the address field
\* is (A - ROM base) >> 2; nothing of (offset >> 2) | (tile << 24) | bit 28
\* is cut off by the 29-bit field; and no address of another 4-byte word,
\* in the root table or in a tile, gets the same field.
C20_FieldIsWordOffset ==
    Translated
        => /\ xl.field = Shr2(Sub32(flat, RSH_CS_ROM_BASE))
           /\ xl.field = CtlAddr(xl.tile, xl.addr)
           /\ \A other \in FlatAddrs :
                 (/\ ~Lt32(other, RSH_CS_ROM_BASE)
                  /\ Shr2(other) # Shr2(flat))
                    => TileField(other) # xl.field

C20_Witness ==
    /\ Translated
    /\ flat = U32(65535, 65535)
    /\ xl.tile = 15
    /\ xl.field = U32(8191, 65535)


\* ------------------------------------------------------------------------
\* coresight_read / coresight_write one channel access at a time: the call
\* up to its dmem_write, each dmem_read of the polling loop, and the device
\* that completes the transaction in between.
\* ------------------------------------------------------------------------
\* The control word built before dmem_write: address field, action, data
\* (writes only), go = 1.
CtlWord(action, tile, addr, wdata) ==
    Ctl(1, action, AddrField(CtlAddr(tile, addr)), 0,
        IF action = 0 THEN wdata ELSE Zero32)

\* Mutation of LoopAgain: the loop is left after its first read.
LoopAgain_never(ctl) == FALSE

\* } while (RSH_CS_GET_FIELD(ctl, GO));
LoopAgain(ctl) == ctl.go = 1

\* Mutation of ReadFailed: the status of dmem_read is not looked at.
ReadFailed_never(rc) == FALSE

\* if (rc < 0) { LOG_ERROR(...); return rc; }
ReadFailed(rc) == rc < 0

\* Registers whose access goes through coresight_read / coresight_write.
ChannelRegs == BDRegs \cup {ADIV5_MEM_AP_REG_DRW}

\* The handler's code after coresight_read / coresight_write has returned
\* rc (and, for a read that left the loop, stored value to *data).
ApReturn(c, rc, value) ==
    /\ pc' = "idle"
    /\ cs' = NoCall
    /\ done' = [op |-> c.op, rc |-> rc, value |-> value, ctl |-> c.ctl,
                nwr |-> c.nwr, nrd |-> c.nrd, wfail |-> c.wfail,
                reads |-> c.reads]
    /\ ap_tar_inc' = IF c.reg = ADIV5_MEM_AP_REG_DRW
                     THEN TarIncAfter(rc, ap_csw, ap_tar_inc)
                     ELSE ap_tar_inc
    /\ dmem_dap_retval' = StickyAfter(rc, dmem_dap_retval)
    /\ lastop' = Op(c.op, c.reg, FALSE, rc,
                    IF c.op = "ap_read" THEN value ELSE c.data,
                    c.nwr, c.nrd, c.addr)
    /\ UNCHANGED <<dp_ctrl_stat, dp_id_code, ap_sel, ap_bank, ap_csw,
                   ap_drw, ap_tar, chan, flags, dev_ctl>>

\* coresight_read / coresight_write up to and including dmem_write, whose
\* result is dropped.  wfail: the pwrite() fails (it does on descriptor -1);
\* the device takes the word only if it does not.
CoresightIssue(op, reg, data, wfail) ==
    LET a == IF reg = ADIV5_MEM_AP_REG_DRW
             THEN DRWAddr(ap_tar, ap_tar_inc)
             ELSE BDAddr(ap_tar, reg)
        t == ap_addr_2_tile(a)
        w == CtlWord(IF op = "ap_read" THEN 1 ELSE 0, t.tile, t.addr, data)
        wf == wfail \/ dmem_fd = -1
    IN  /\ pc' = "poll"
        /\ cs' = [op |-> op, reg |-> reg, data |-> data, addr |-> a,
                  ctl |-> w, nwr |-> 1, nrd |-> 0, wfail |-> wf,
                  reads |-> <<>>]
        /\ dev_ctl' = IF wf THEN dev_ctl ELSE w
        /\ UNCHANGED <<chan, flags, dmem_dap_retval, lastop, done>>

\* dmem_ap_q_read (ADIv5) up to the first dmem_read of coresight_read; the
\* whole handler when it does not get that far.
ap_q_read_call(reg, wfail) ==
    /\ pc = "idle"
    /\ reg = ADIV5_MEM_AP_REG_DRW => ap_tar_inc < MaxTarInc
    /\ IF reg \notin ChannelRegs \/ dmem_read = "NULL" \/ dmem_write = "NULL"
       THEN /\ dmem_ap_q_read(FALSE, 0, reg, Resp(TRUE, 1, TRUE, Zero32))
            /\ UNCHANGED pollvars
       ELSE /\ CoresightIssue("ap_read", reg, NoData, wfail)
            /\ UNCHANGED shadow

\* dmem_ap_q_write (ADIv5) up to the first dmem_read of coresight_write; the
\* whole handler when it does not get that far.
ap_q_write_call(reg, data, wfail) ==
    /\ pc = "idle"
    /\ reg = ADIV5_MEM_AP_REG_DRW => ap_tar_inc < MaxTarInc
    /\ IF \/ BankRejects(ap_bank)
          \/ reg \notin ChannelRegs
          \/ dmem_read = "NULL" \/ dmem_write = "NULL"
       THEN /\ dmem_ap_q_write(FALSE, reg, data, Resp(TRUE, 1, TRUE, Zero32))
            /\ UNCHANGED pollvars
       ELSE /\ CoresightIssue("ap_write", reg, data, wfail)
            /\ ap_drw' = IF reg = ADIV5_MEM_AP_REG_DRW THEN data ELSE ap_drw
            /\ UNCHANGED <<dp_ctrl_stat, dp_id_code, ap_sel, ap_bank,
                           ap_csw, ap_tar, ap_tar_inc>>

\* One turn of the polling loop: dmem_read, then return rc, or go round
\* again, or leave the loop and return ERROR_OK (a read stores the data
\* field first).  rfail: the pread() fails (it does on descriptor -1) and
\* leaves ctl as it was; else it returns sizeof(ctl) and ctl is the
\* device's word.
coresight_poll(rfail) ==
    /\ pc = "poll"
    /\ LET bad == rfail \/ dmem_fd = -1
           rc == IF bad THEN IO_ERR ELSE 8
           ctl == IF bad THEN cs.ctl ELSE dev_ctl
           c == [cs EXCEPT !.ctl = ctl, !.nrd = @ + 1,
                           !.reads = Append(@, IF bad THEN "fail"
                                               ELSE IF ctl.go = 1 THEN "go"
                                               ELSE "end")]
       IN  IF ReadFailed(rc)
           THEN ApReturn(c, rc, NoData)
           ELSE IF LoopAgain(ctl)
           THEN /\ c.nrd < MaxPolls
                /\ cs' = c
                /\ UNCHANGED <<pc, dev_ctl, done, shadow, chan, flags,
                               dmem_dap_retval, lastop>>
           ELSE ApReturn(c, ERROR_OK,
                         IF c.op = "ap_read" THEN ctl.data ELSE NoData)

\* The device ends the transaction it was given: it clears go, reports a
\* fault or none in err and, for a read, delivers the data.
device_complete(err, data) ==
    /\ dev_ctl.go = 1
    /\ dev_ctl' = [dev_ctl EXCEPT !.go = 0, !.err = err,
                                  !.data = IF dev_ctl.action = 1 THEN data
                                           ELSE @]
    /\ UNCHANGED <<shadow, chan, flags, dmem_dap_retval, lastop, pc, cs,
                   done>>

\* ------------------------------------------------------------------------
\* Specification SpecPoll: BD0 reads and DRW accesses poll by poll.
\* SpecPollFair: the same, where the polling loop keeps running while its
\* reads succeed, and the device ends every transaction it has taken.
\* ------------------------------------------------------------------------
PollReadRegs == {ADIV5_MEM_AP_REG_BD0, ADIV5_MEM_AP_REG_DRW}
PollWriteRegs == {ADIV5_MEM_AP_REG_TAR, ADIV5_MEM_AP_REG_DRW}
\* TAR value: 0xC4100000 (tile 1, offset 0x00100000)
PollTar == {U32(50192, 0)}
\* data written to BD0 / DRW: 0x12345678
PollWData == {U32(4660, 22136)}
PollData(reg) == IF reg = ADIV5_MEM_AP_REG_TAR THEN PollTar ELSE PollWData

Polled(A) == A /\ UNCHANGED <<stickyHist, shadowHist, tilevars>>
Idle(A) == pc = "idle" /\ A /\ UNCHANGED pollvars

\* connect is called only while no handle is bound
P_connect == Polled(Idle(dmem_fd = -1 /\ dmem_connect(TRUE)))
P_disconnect == Polled(Idle(dmem_disconnect))
P_ap_q_read ==
    Polled(\E reg \in PollReadRegs, wfail \in BOOLEAN :
               ap_q_read_call(reg, wfail))
P_ap_q_write ==
    Polled(\E reg \in PollWriteRegs :
              \E d \in PollData(reg), wfail \in BOOLEAN :
                  ap_q_write_call(reg, d, wfail))
P_poll == Polled(\E rfail \in BOOLEAN : coresight_poll(rfail))
P_poll_ok == Polled(coresight_poll(FALSE))
P_device ==
    Polled(\E err \in {0, 1}, d \in DevData : device_complete(err, d))
P_dp_run == Polled(Idle(dmem_dp_run))

NextPoll ==
    \/ P_connect
    \/ P_disconnect
    \/ P_ap_q_read
    \/ P_ap_q_write
    \/ P_poll
    \/ P_device
    \/ P_dp_run

SpecPoll == Init /\ [][NextPoll]_vars

SpecPollFair ==
    Init /\ [][NextPoll]_vars /\ WF_vars(P_poll_ok) /\ WF_vars(P_device)

\* ------------------------------------------------------------------------
\* Properties of the channel protocol (checked under SpecPoll and
\* SpecPollFair)
\* ------------------------------------------------------------------------
\* What the pread()s of a transaction gave, as a set.
Reads(c) == {c.reads[i] : i \in 1..Len(c.reads)}

\* The AP call made last went through the channel, so done is its
\* transaction.
LastOnChannel == IsApOp(lastop) /\ lastop.nwr > 0

\* C13: a BD0..BD3 or DRW access during which the channel write of the
\* control word or a channel read failed returns a non-success status, and
\* that status is the sticky error code the next run returns.
C13_ChannelErrorFails ==
    (LastOnChannel /\ (done.wfail \/ "fail" \in Reads(done)))
        => (lastop.rc # ERROR_OK /\ dmem_dap_retval = lastop.rc)

\* C14: a transaction the device ended (go = 0 in the last word read) with
\* err = 1 does not return success.
C14_DeviceFaultFails ==
    (/\ done.op # "none"
     /\ done.nrd > 0
     /\ done.reads[done.nrd] = "end"
     /\ done.ctl.err = 1)
        => done.rc # ERROR_OK

\* C15: a read is still polling only while every word read so far had
\* go = 1; a read whose channel reads all succeeded returns success, after
\* reads 1..N-1 gave go = 1 and read N gave go = 0, with the data field of
\* word N; and, if the device ends every transaction and successful reads
\* go on, every polling loop is left.
C15_PollsUntilGoClear ==
    /\ [](pc = "poll" => Reads(cs) \subseteq {"go"})
    /\ []((done.op = "ap_read" /\ "fail" \notin Reads(done))
             => /\ done.rc = ERROR_OK
                /\ done.nrd = Len(done.reads)
                /\ done.nrd >= 1
                /\ \A i \in 1..(done.nrd - 1) : done.reads[i] = "go"
                /\ done.reads[done.nrd] = "end"
                /\ done.ctl.go = 0
                /\ done.value = done.ctl.data)
    /\ []((LastOnChannel /\ lastop.op = "ap_read"
           /\ lastop.rc = ERROR_OK) => lastop.data = done.ctl.data)
    /\ (pc = "poll" ~> pc = "idle")

C15_Witness ==
    /\ LastOnChannel
    /\ lastop.op = "ap_read"
    /\ lastop.reg = ADIV5_MEM_AP_REG_DRW
    /\ lastop.addr = U32(50192, 0)
    /\ done.reads = <<"go", "end">>
    /\ ~done.wfail
    /\ done.ctl.addr = U32(4356, 0)
    /\ lastop.data = U32(57005, 48879)

\* C16: a polling loop goes on only while no channel read has failed; a
\* transaction with a failed channel read ended with that read, issued
\* nothing after it, and returned the read's status; a read then stored
\* no data.
C16_ReadFailureReturns ==
    /\ pc = "poll" => "fail" \notin Reads(cs)
    /\ "fail" \in Reads(done)
          => /\ done.nrd = Len(done.reads)
             /\ \A i \in 1..(done.nrd - 1) : done.reads[i] # "fail"
             /\ done.nwr = 1
             /\ done.rc = IO_ERR
             /\ done.value = NoData
    /\ (LastOnChannel /\ "fail" \in Reads(done))
          => /\ lastop.rc = IO_ERR
             /\ lastop.nrd = done.nrd
             /\ lastop.nwr = 1
             /\ lastop.op = "ap_read" => lastop.data = NoData

C16_Witness ==
    /\ LastOnChannel
    /\ lastop.op = "ap_read"
    /\ done.reads = <<"go", "fail">>
    /\ dmem_fd # -1
    /\ dev_ctl.go = 0
    /\ dev_ctl.data = U32(57005, 48879)
    /\ lastop.data = NoData

====
